---- MODULE Spec2Model ----
\* KpopDuel server: the match manager (src/src/gameManager.ts) and the
\* socket server that drives it (server.ts, reproduced in src/README.md).
\*
\* Times are in milliseconds, as Date.now() gives them.  Song titles are
\* numbered 1..NumSongs (song i of songDatabase has correctAnswer i); the
\* empty string '' is title 0.
EXTENDS Integers, Sequences, FiniteSets, TLC

VARIABLES
  matches,         \* GameManager.matches: matchId -> Match
  waitingPlayers,  \* GameManager.waitingPlayers: sequence of player ids
  playerMatches,   \* GameManager.playerMatches: playerId -> matchId
  nextId,          \* the next identifier uuidv4() hands out
  now,             \* Date.now()
  calls,           \* the number of GameManager calls made so far
  connectedPlayers, \* server: the players with a live socket
  socketData,      \* server: socket.data.matchId of each player's socket, 0 when unset
  timers,          \* server: the pending setTimeout callbacks, in scheduling order
  lastGuess,       \* history: what became of the latest playerGuess event
  resolved,        \* history: the roundNumber of every RoundResult returned, in order
  alternating,     \* history: the matches whose rounds were started and resolved in turn
  answeredIn,      \* history: the round each pending answer was submitted in
  forfeited,       \* history: the matches a participant was removed from while not finished
  finishedAt       \* history: when the match last became 'finished'

gmVars == <<matches, waitingPlayers, playerMatches, nextId>>
histVars == <<resolved, alternating, answeredIn, forfeited, finishedAt>>
serverVars == <<connectedPlayers, socketData, timers, lastGuess>>
vars == <<matches, waitingPlayers, playerMatches, nextId, now, calls,
          connectedPlayers, socketData, timers, lastGuess,
          resolved, alternating, answeredIn, forfeited, finishedAt>>

----------------------------------------------------------------------------
\* Bounds of the model

MaxMatches == 2     \* matches ever created
MaxCalls == 7       \* GameManager calls in a run
MaxTicks == 1       \* clock steps of TickMs
MaxHours == 1       \* clock steps of one hour
MaxScore == 400     \* no score is pushed beyond this
MaxGuess == 1       \* guesses are the titles 0..MaxGuess
MaxShuffle == 0     \* generateRounds yields one of 1 + MaxShuffle orders
StartTime == 10000000   \* Date.now() when the process starts
NumSongs == 2       \* songs kept of songDatabase, so a match has NumSongs rounds
TickMs == 15000     \* the step of the clock, and how far a timestamp may lag

\* Program constants
RoundCount == 5         \* generateRounds(5)
RoundTimeLimit == 15    \* roundTimeLimit: 15
HourMs == 3600000       \* 60 * 60 * 1000

Max(a, b) == IF a >= b THEN a ELSE b
Min(a, b) == IF a <= b THEN a ELSE b

Undefined == -1         \* roundStartTime?: number, when unset
NaN == -2               \* undefined + points

Players == {"A", "B", "C"}
System == "system"
MatchIds == 1..MaxMatches
Guesses == 0..MaxGuess
RoundNumbers == 0..Min(RoundCount, NumSongs)

EmptyMap == [x \in {} |-> 0]
Null == [type |-> "null"]

\* x || 0
OrZero(x) == IF x = Undefined THEN 0 ELSE x
\* !x, for an optional number
Falsy(x) == x = Undefined \/ x = 0

----------------------------------------------------------------------------
\* GameManager

\* generateRounds: a shuffle of songDatabase cut to `count`.  Of the orders
\* Math.random() can produce the model keeps the rotations 0..MaxShuffle.
generateRounds(count) ==
  { [i \in 1..Min(count, NumSongs) |-> ((i - 1 + s) % NumSongs) + 1] :
      s \in 0..MaxShuffle }

\* createMatch pairing the two newest entries of q, the newest as player 1
createMatchNewestFirst(q, rounds) ==
  LET player1 == q[Len(q)]
      player2 == q[Len(q) - 1]
      matchId == nextId
      match == [ id |-> matchId,
                 player1Id |-> player1,
                 player2Id |-> player2,
                 currentRound |-> 0,
                 rounds |-> rounds,
                 scores |-> [p \in {player1, player2} |-> 0],
                 state |-> "waiting",
                 roundStartTime |-> Undefined,
                 playerAnswers |-> EmptyMap,
                 roundTimeLimit |-> RoundTimeLimit ]
  IN /\ nextId <= MaxMatches
     /\ waitingPlayers' = SubSeq(q, 1, Len(q) - 2)
     /\ matches' = [i \in DOMAIN matches \cup {matchId} |->
                      IF i = matchId THEN match ELSE matches[i]]
     /\ playerMatches' = [p \in DOMAIN playerMatches \cup {player1, player2} |->
                            IF p \in {player1, player2} THEN matchId
                            ELSE playerMatches[p]]
     /\ nextId' = nextId + 1

\* createMatch reading the first two entries of q without taking them off
createMatchKeepQueue(q, rounds) ==
  LET player1 == q[1]
      player2 == q[2]
      matchId == nextId
      match == [ id |-> matchId,
                 player1Id |-> player1,
                 player2Id |-> player2,
                 currentRound |-> 0,
                 rounds |-> rounds,
                 scores |-> [p \in {player1, player2} |-> 0],
                 state |-> "waiting",
                 roundStartTime |-> Undefined,
                 playerAnswers |-> EmptyMap,
                 roundTimeLimit |-> RoundTimeLimit ]
  IN /\ nextId <= MaxMatches
     /\ waitingPlayers' = q
     /\ matches' = [i \in DOMAIN matches \cup {matchId} |->
                      IF i = matchId THEN match ELSE matches[i]]
     /\ playerMatches' = [p \in DOMAIN playerMatches \cup {player1, player2} |->
                            IF p \in {player1, player2} THEN matchId
                            ELSE playerMatches[p]]
     /\ nextId' = nextId + 1

\* createMatch, on the waiting list q that addPlayerToQueue has built.
createMatch(q, rounds) ==
  LET player1 == q[1]
      player2 == q[2]
      matchId == nextId
      match == [ id |-> matchId,
                 player1Id |-> player1,
                 player2Id |-> player2,
                 currentRound |-> 0,
                 rounds |-> rounds,
                 scores |-> [p \in {player1, player2} |-> 0],
                 state |-> "waiting",
                 roundStartTime |-> Undefined,
                 playerAnswers |-> EmptyMap,
                 roundTimeLimit |-> RoundTimeLimit ]
  IN /\ nextId <= MaxMatches
     /\ waitingPlayers' = SubSeq(q, 3, Len(q))
     /\ matches' = [i \in DOMAIN matches \cup {matchId} |->
                      IF i = matchId THEN match ELSE matches[i]]
     /\ playerMatches' = [p \in DOMAIN playerMatches \cup {player1, player2} |->
                            IF p \in {player1, player2} THEN matchId
                            ELSE playerMatches[p]]
     /\ nextId' = nextId + 1

\* addPlayerToQueue without the filter that drops the player's earlier entry
addPlayerToQueueUnfiltered(player) ==
  IF player \in DOMAIN playerMatches
  THEN UNCHANGED gmVars
  ELSE LET q == Append(waitingPlayers, player)
       IN IF Len(q) >= 2
          THEN \E rounds \in generateRounds(RoundCount) : createMatch(q, rounds)
          ELSE /\ waitingPlayers' = q
               /\ UNCHANGED <<matches, playerMatches, nextId>>

addPlayerToQueue(player) ==
  IF player \in DOMAIN playerMatches
  THEN UNCHANGED gmVars
  ELSE LET q == Append(SelectSeq(waitingPlayers, LAMBDA x : x # player), player)
       IN IF Len(q) >= 2
          THEN \E rounds \in generateRounds(RoundCount) : createMatch(q, rounds)
          ELSE /\ waitingPlayers' = q
               /\ UNCHANGED <<matches, playerMatches, nextId>>

startMatch(matchId) ==
  IF matchId \notin DOMAIN matches
  THEN UNCHANGED gmVars
  ELSE /\ matches' = [matches EXCEPT ![matchId].state = "playing",
                                     ![matchId].currentRound = 1,
                                     ![matchId].roundStartTime = now]
       /\ UNCHANGED <<waitingPlayers, playerMatches, nextId>>

\* getCurrentRound on the match table ms: the song of the current round, or Null
CurrentRound(ms, matchId) ==
  IF \/ matchId \notin DOMAIN ms
     \/ ms[matchId].currentRound = 0
     \/ ms[matchId].currentRound > Len(ms[matchId].rounds)
  THEN Null
  ELSE [type |-> "round", correctAnswer |-> ms[matchId].rounds[ms[matchId].currentRound]]

getCurrentRound(matchId) == CurrentRound(matches, matchId)

\* Math.round(100 + speedBonus * 10), in integers: speedBonus is bonusMs / 1000
Points(timestamp, roundStartTime, roundTimeLimit) ==
  LET elapsedMs == timestamp - OrZero(roundStartTime)
      bonusMs == Max(0, roundTimeLimit * 1000 - elapsedMs)
  IN 100 + ((bonusMs + 50) \div 100)

\* scores[playerId] += points
AddPoints(scores, playerId, points) ==
  [id \in DOMAIN scores \cup {playerId} |->
     IF id = playerId
     THEN IF playerId \in DOMAIN scores /\ scores[playerId] # NaN
          THEN scores[playerId] + points
          ELSE NaN
     ELSE scores[id]]

isRoundTimeUp(match) ==
  IF Falsy(match.roundStartTime) THEN FALSE
  ELSE now - match.roundStartTime >= match.roundTimeLimit * 1000

\* finishRound: the match after the round and the RoundResult
finishRound(match) ==
  LET result == [ type |-> "RoundResult",
                  correctAnswer |-> match.rounds[match.currentRound],
                  scores |-> match.scores,
                  playerAnswers |-> match.playerAnswers,
                  roundNumber |-> match.currentRound ]
      cleared == [match EXCEPT !.playerAnswers = EmptyMap]
  IN [ result |-> result,
       match |-> IF match.currentRound >= Len(match.rounds)
                 THEN [cleared EXCEPT !.state = "finished"]
                 ELSE [cleared EXCEPT !.currentRound = match.currentRound + 1,
                                      !.roundStartTime = Undefined] ]

\* The match once submitGuess has stored the answer and scored it
Answered(match, playerId, guess, timestamp) ==
  LET answers == [id \in DOMAIN match.playerAnswers \cup {playerId} |->
                    IF id = playerId THEN guess ELSE match.playerAnswers[id]]
      correct == guess = match.rounds[match.currentRound]
      points == Points(timestamp, match.roundStartTime, match.roundTimeLimit)
  IN [match EXCEPT !.playerAnswers = answers,
                   !.scores = IF correct THEN AddPoints(match.scores, playerId, points)
                              ELSE match.scores]

allAnswered(match) ==
  \A id \in {match.player1Id, match.player2Id} : id \in DOMAIN match.playerAnswers

\* submitGuess without the check of the round number
SubmittedAnyRound(matchId, playerId, roundNumber, guess, timestamp) ==
  IF \/ matchId \notin DOMAIN matches
     \/ matches[matchId].state # "playing"
  THEN [taken |-> FALSE, match |-> Null, result |-> Null]
  ELSE LET match == Answered(matches[matchId], playerId, guess, timestamp)
       IN IF allAnswered(match) \/ isRoundTimeUp(match)
          THEN [taken |-> TRUE, match |-> finishRound(match).match,
                result |-> finishRound(match).result]
          ELSE [taken |-> TRUE, match |-> match, result |-> Null]

\* submitGuess: whether the guess is taken, the match after it and the value
\* returned
Submitted(matchId, playerId, roundNumber, guess, timestamp) ==
  IF \/ matchId \notin DOMAIN matches
     \/ matches[matchId].state # "playing"
     \/ roundNumber # matches[matchId].currentRound
  THEN [taken |-> FALSE, match |-> Null, result |-> Null]
  ELSE LET match == Answered(matches[matchId], playerId, guess, timestamp)
       IN IF allAnswered(match) \/ isRoundTimeUp(match)
          THEN [taken |-> TRUE, match |-> finishRound(match).match,
                result |-> finishRound(match).result]
          ELSE [taken |-> TRUE, match |-> match, result |-> Null]

submitGuess(matchId, playerId, roundNumber, guess, timestamp) ==
  LET done == Submitted(matchId, playerId, roundNumber, guess, timestamp)
  IN IF ~done.taken
     THEN UNCHANGED gmVars
     ELSE /\ \A id \in DOMAIN done.match.scores : done.match.scores[id] <= MaxScore
          /\ matches' = [matches EXCEPT ![matchId] = done.match]
          /\ UNCHANGED <<waitingPlayers, playerMatches, nextId>>

\* getGameResult naming player 1 the winner of equal scores
getGameResultNoTie(matchId) ==
  IF matchId \notin DOMAIN matches \/ matches[matchId].state # "finished"
  THEN Null
  ELSE LET match == matches[matchId]
           player1Score == match.scores[match.player1Id]
           player2Score == match.scores[match.player2Id]
       IN [ type |-> "GameResult",
            finalScores |-> match.scores,
            winner |-> IF player1Score >= player2Score THEN match.player1Id
                       ELSE match.player2Id,
            matchId |-> matchId ]

\* getGameResult
getGameResult(matchId) ==
  IF matchId \notin DOMAIN matches \/ matches[matchId].state # "finished"
  THEN Null
  ELSE LET match == matches[matchId]
           player1Score == match.scores[match.player1Id]
           player2Score == match.scores[match.player2Id]
       IN [ type |-> "GameResult",
            finalScores |-> match.scores,
            winner |-> IF player1Score > player2Score THEN match.player1Id
                       ELSE IF player2Score > player1Score THEN match.player2Id
                       ELSE "tie",
            matchId |-> matchId ]

removePlayer(playerId) ==
  /\ waitingPlayers' = SelectSeq(waitingPlayers, LAMBDA x : x # playerId)
  /\ IF playerId \in DOMAIN playerMatches
     THEN LET matchId == playerMatches[playerId]
          IN /\ matches' = IF matchId \in DOMAIN matches
                              /\ matches[matchId].state # "finished"
                           THEN [matches EXCEPT ![matchId].state = "finished"]
                           ELSE matches
             /\ playerMatches' = [p \in DOMAIN playerMatches \ {playerId} |->
                                    playerMatches[p]]
     ELSE UNCHANGED <<matches, playerMatches>>
  /\ UNCHANGED nextId

\* The matches cleanupFinishedMatches deletes
Expired ==
  { m \in DOMAIN matches :
      /\ matches[m].state = "finished"
      /\ OrZero(matches[m].roundStartTime) < now - HourMs }

\* The two maps as cleanupFinishedMatches leaves them
Swept ==
  LET gone == UNION { {matches[m].player1Id, matches[m].player2Id} : m \in Expired }
  IN [ matches |-> [m \in DOMAIN matches \ Expired |-> matches[m]],
       playerMatches |-> [p \in DOMAIN playerMatches \ gone |-> playerMatches[p]] ]

cleanupFinishedMatches ==
  /\ matches' = Swept.matches
  /\ playerMatches' = Swept.playerMatches
  /\ UNCHANGED <<waitingPlayers, nextId>>

getStats ==
  [ activeMatches |-> Cardinality({m \in DOMAIN matches : matches[m].state = "playing"}),
    waitingPlayers |-> Len(waitingPlayers),
    totalMatches |-> Cardinality(DOMAIN matches) ]

----------------------------------------------------------------------------
\* History variables, kept by every step from what the step did

IsFinished(ms, m) == m \in DOMAIN ms /\ ms[m].state = "finished"

\* A round of the match has been started and not yet resolved
InRound(m) ==
  /\ m \in DOMAIN matches
  /\ matches[m].state = "playing"
  /\ matches[m].roundStartTime # Undefined

NoSubmit == [taken |-> FALSE, match |-> Null, result |-> Null]

\* op is the call made, on matchId or by playerId; done is what a submitGuess did
History(op, matchId, playerId, done) ==
  /\ calls < MaxCalls
  /\ calls' = calls + 1
  /\ resolved' = [m \in MatchIds |->
        IF matchId = m /\ done.result # Null
        THEN Append(resolved[m], done.result.roundNumber)
        ELSE resolved[m]]
  /\ alternating' =
        IF op = "startMatch" /\ (InRound(matchId) \/ IsFinished(matches, matchId))
        THEN alternating \ {matchId}
        ELSE IF done.result # Null /\ ~InRound(matchId)
        THEN alternating \ {matchId}
        ELSE alternating
  /\ answeredIn' = [m \in MatchIds |->
        IF matchId = m /\ done.taken
        THEN IF done.result # Null THEN EmptyMap
             ELSE [id \in DOMAIN answeredIn[m] \cup {playerId} |->
                     IF id = playerId THEN matches[m].currentRound
                     ELSE answeredIn[m][id]]
        ELSE answeredIn[m]]
  /\ forfeited' =
        IF /\ op = "removePlayer"
           /\ playerId \in DOMAIN playerMatches
           /\ playerMatches[playerId] \in DOMAIN matches
           /\ ~IsFinished(matches, playerMatches[playerId])
        THEN forfeited \cup {playerMatches[playerId]}
        ELSE forfeited
  /\ finishedAt' = [m \in MatchIds |->
        IF IsFinished(matches', m)
        THEN IF IsFinished(matches, m) THEN finishedAt[m] ELSE now
        ELSE Undefined]

----------------------------------------------------------------------------
\* The manager called directly, with any arguments

Init ==
  /\ matches = EmptyMap
  /\ waitingPlayers = << >>
  /\ playerMatches = EmptyMap
  /\ nextId = 1
  /\ now = StartTime
  /\ calls = 0
  /\ connectedPlayers = {}
  /\ socketData = [p \in Players |-> 0]
  /\ timers = << >>
  /\ lastGuess = "none"
  /\ resolved = [m \in MatchIds |-> << >>]
  /\ alternating = MatchIds
  /\ answeredIn = [m \in MatchIds |-> EmptyMap]
  /\ forfeited = {}
  /\ finishedAt = [m \in MatchIds |-> Undefined]

\* The identities whose guesses the model submits for a match
Participants(m) ==
  IF m \in DOMAIN matches THEN {matches[m].player1Id, matches[m].player2Id} ELSE {}

Enqueue(p) ==
  /\ addPlayerToQueue(p)
  /\ History("addPlayerToQueue", 0, p, NoSubmit)
  /\ UNCHANGED <<now, serverVars>>

StartRound(m) ==
  /\ startMatch(m)
  /\ History("startMatch", m, System, NoSubmit)
  /\ UNCHANGED <<now, serverVars>>

Submit(m, p, rn, g, ts) ==
  /\ submitGuess(m, p, rn, g, ts)
  /\ History("submitGuess", m, p, Submitted(m, p, rn, g, ts))
  /\ UNCHANGED <<now, serverVars>>

Forfeit(p) ==
  /\ removePlayer(p)
  /\ History("removePlayer", 0, p, NoSubmit)
  /\ UNCHANGED <<now, serverVars>>

Sweep ==
  /\ cleanupFinishedMatches
  /\ History("cleanupFinishedMatches", 0, System, NoSubmit)
  /\ UNCHANGED <<now, serverVars>>

Ticks == ((now - StartTime) % HourMs) \div TickMs
Hours == (now - StartTime) \div HourMs

Tick ==
  /\ Ticks < MaxTicks
  /\ now' = now + TickMs
  /\ UNCHANGED <<gmVars, calls, histVars, serverVars>>

TickHour ==
  /\ Hours < MaxHours
  /\ now' = now + HourMs
  /\ UNCHANGED <<gmVars, calls, histVars, serverVars>>

\* Any call, by the players ps, with a guess of gs and a timestamp now - d, d in ds
NextOn(ps, gs, ds) ==
  \/ \E p \in ps : Enqueue(p)
  \/ \E m \in MatchIds : StartRound(m)
  \/ \E m \in MatchIds, rn \in RoundNumbers, g \in gs, d \in ds :
       \E p \in Participants(m) \cup {System} : Submit(m, p, rn, g, now - d)
  \/ \E p \in ps : Forfeit(p)
  \/ Sweep
  \/ Tick
  \/ TickHour

Next == NextOn(Players, Guesses, {0, TickMs})

Spec == Init /\ [][Next]_vars

----------------------------------------------------------------------------
\* The socket server (server.ts), which calls the manager from its handlers
\* and timers.  A player holds at most one socket; a timer fires when the
\* clock reaches its due time, the earliest first.

StartDelayMs == 3000        \* setTimeout(() => startNextRound(matchId), 3000)
TimeoutBufferMs == 1000     \* match.roundTimeLimit * 1000 + 1000

\* A pending setTimeout.  seen is history: the number of RoundResults the
\* match had produced when the timer was scheduled.
Timer(kind, id, delay) ==
  [kind |-> kind, matchId |-> id, due |-> now + delay, seen |-> Len(resolved[id])]

Remove(seq, i) == SubSeq(seq, 1, i - 1) \o SubSeq(seq, i + 1, Len(seq))

Due(i) ==
  /\ timers[i].due <= now
  /\ \A j \in DOMAIN timers : timers[j].due >= timers[i].due

\* io.on('connection')
connection(playerId) ==
  /\ playerId \notin connectedPlayers
  /\ connectedPlayers' = connectedPlayers \cup {playerId}
  /\ socketData' = [socketData EXCEPT ![playerId] = 0]
  /\ UNCHANGED <<gmVars, now, calls, timers, lastGuess, histVars>>

\* socket.on('findOpponent')
findOpponent(playerId) ==
  /\ playerId \in connectedPlayers
  /\ addPlayerToQueue(playerId)
  /\ History("addPlayerToQueue", 0, playerId, NoSubmit)
  /\ LET mid == nextId
     IN IF /\ nextId' # nextId
           /\ {matches'[mid].player1Id, matches'[mid].player2Id} \subseteq connectedPlayers
        THEN /\ socketData' = [p \in Players |->
                                 IF p \in {matches'[mid].player1Id, matches'[mid].player2Id}
                                 THEN mid ELSE socketData[p]]
             /\ timers' = Append(timers, Timer("start", mid, StartDelayMs))
        ELSE UNCHANGED <<socketData, timers>>
  /\ UNCHANGED <<now, connectedPlayers, lastGuess>>

\* socket.on('playerGuess')
playerGuess(playerId, roundNumber, guess) ==
  /\ playerId \in connectedPlayers
  /\ socketData[playerId] # 0
  /\ LET mid == socketData[playerId]
         done == Submitted(mid, playerId, roundNumber, guess, now)
     IN /\ submitGuess(mid, playerId, roundNumber, guess, now)
        /\ History("submitGuess", mid, playerId, done)
        /\ timers' = IF /\ done.result # Null
                        /\ mid \in DOMAIN matches'
                        /\ matches'[mid].state # "finished"
                     THEN Append(timers, Timer("start", mid, StartDelayMs))
                     ELSE timers
        /\ lastGuess' = IF done.taken THEN "taken"
                        ELSE IF mid \notin DOMAIN matches THEN "no match"
                        ELSE IF matches[mid].state # "playing" THEN "not playing"
                        ELSE "other round"
  /\ UNCHANGED <<now, connectedPlayers, socketData>>

\* socket.on('disconnect')
disconnect(playerId) ==
  /\ playerId \in connectedPlayers
  /\ connectedPlayers' = connectedPlayers \ {playerId}
  /\ socketData' = [socketData EXCEPT ![playerId] = 0]
  /\ removePlayer(playerId)
  /\ History("removePlayer", 0, playerId, NoSubmit)
  /\ UNCHANGED <<now, timers, lastGuess>>

\* startNextRound, from the timer timers[i]
startNextRound(i) ==
  /\ timers[i].kind = "start"
  /\ Due(i)
  /\ LET mid == timers[i].matchId
     IN /\ startMatch(mid)
        /\ History("startMatch", mid, System, NoSubmit)
        /\ timers' =
             IF /\ mid \in DOMAIN matches
                /\ CurrentRound(matches', mid) # Null
                /\ {matches[mid].player1Id, matches[mid].player2Id}
                      \subseteq connectedPlayers
             THEN Append(Remove(timers, i),
                         Timer("auto", mid, RoundTimeLimit * 1000 + TimeoutBufferMs))
             ELSE Remove(timers, i)
  /\ UNCHANGED <<now, connectedPlayers, socketData, lastGuess>>

\* The auto-finish callback startNextRound scheduled, from the timer timers[i].
\* It reads match.currentRound when it fires.
autoFinish(i) ==
  /\ timers[i].kind = "auto"
  /\ Due(i)
  /\ LET matchId == timers[i].matchId
     IN IF matchId \in DOMAIN matches /\ matches[matchId].state = "playing"
        THEN LET roundNumber == matches[matchId].currentRound
                 done == Submitted(matchId, System, roundNumber, 0, now)
             IN /\ submitGuess(matchId, System, roundNumber, 0, now)
                /\ History("submitGuess", matchId, System, done)
                /\ timers' = IF done.result # Null /\ matches'[matchId].state # "finished"
                             THEN Append(Remove(timers, i),
                                         Timer("start", matchId, StartDelayMs))
                             ELSE Remove(timers, i)
        ELSE /\ timers' = Remove(timers, i)
             /\ UNCHANGED <<gmVars, calls, histVars>>
  /\ UNCHANGED <<now, connectedPlayers, socketData, lastGuess>>

\* setInterval(() => gameManager.cleanupFinishedMatches(), ...)
cleanupInterval == Sweep

\* The clock reaches the next timer
Advance ==
  /\ timers # << >>
  /\ \A i \in DOMAIN timers : timers[i].due > now
  /\ \E i \in DOMAIN timers :
       /\ \A j \in DOMAIN timers : timers[j].due >= timers[i].due
       /\ now' = timers[i].due
  /\ UNCHANGED <<gmVars, calls, histVars, serverVars>>

ServerNext ==
  \/ \E p \in Players : connection(p)
  \/ \E p \in Players : findOpponent(p)
  \/ \E p \in Players, rn \in RoundNumbers, g \in Guesses : playerGuess(p, rn, g)
  \/ \E p \in Players : disconnect(p)
  \/ \E i \in DOMAIN timers : startNextRound(i)
  \/ \E i \in DOMAIN timers : autoFinish(i)
  \/ cleanupInterval
  \/ Advance

ServerSpec == Init /\ [][ServerNext]_vars

\* The manager called only to enqueue, remove and sweep
RegistryNext ==
  \/ \E p \in Players : Enqueue(p)
  \/ \E p \in Players : Forfeit(p)
  \/ Sweep
  \/ TickHour

RegistrySpec == Init /\ [][RegistryNext]_vars

----------------------------------------------------------------------------
\* Claims

Rank(state) == IF state = "waiting" THEN 0 ELSE IF state = "playing" THEN 1 ELSE 2
Range(seq) == {seq[i] : i \in DOMAIN seq}
Kept == DOMAIN matches \cap DOMAIN matches'
ParticipantsOf(match) == {match.player1Id, match.player2Id}

\* C1: under the server (rounds started by startNextRound, resolved by both
\* players' guesses or by the forced timeout), a match nobody has left
\* resolves rounds 1, 2, ..., N in that order, each once, and is 'finished'
\* exactly when round N has been resolved.
C1_RoundsInOrder ==
  \A m \in DOMAIN matches :
    (m \in alternating /\ m \notin forfeited) =>
      /\ \A i \in DOMAIN resolved[m] : resolved[m][i] = i
      /\ matches[m].state = "finished" <=> Len(resolved[m]) = Len(matches[m].rounds)

\* C2: the current-round index of a match never decreases while the match exists.
C2_RoundNeverDecreases ==
  [][\A m \in Kept : matches'[m].currentRound >= matches[m].currentRound]_vars

\* C3: the lifecycle state only moves waiting -> playing -> finished: no step
\* takes a match back to an earlier state.
C3_LifecycleMonotonic ==
  [][\A m \in Kept : Rank(matches'[m].state) >= Rank(matches[m].state)]_vars

\* C4: no round number has two RoundResults, and the pending-answer map never
\* holds an answer submitted in a round that has been resolved.
C4_NoDoubleResolve ==
  \A m \in MatchIds :
    /\ \A i, j \in DOMAIN resolved[m] : resolved[m][i] = resolved[m][j] => i = j
    /\ \A id \in DOMAIN answeredIn[m] : answeredIn[m][id] \notin Range(resolved[m])

\* C5: an auto-finish timer that fires after the round it was scheduled for
\* has been resolved returns no RoundResult and leaves the match's state,
\* current round, scores and pending answers as they were.
C5_StaleTimerNoOp ==
  [][\A i \in DOMAIN timers :
       (autoFinish(i) /\ Len(resolved[timers[i].matchId]) > timers[i].seen)
         => /\ resolved' = resolved
            /\ \A m \in Kept :
                 /\ matches'[m].state = matches[m].state
                 /\ matches'[m].currentRound = matches[m].currentRound
                 /\ matches'[m].scores = matches[m].scores
                 /\ matches'[m].playerAnswers = matches[m].playerAnswers]_vars

\* C6: no player is a participant of two different matches that are both not
\* finished.
C6_OneLiveMatchPerPlayer ==
  \A m1, m2 \in DOMAIN matches :
    ( /\ m1 # m2
      /\ matches[m1].state # "finished"
      /\ matches[m2].state # "finished" )
      => ParticipantsOf(matches[m1]) \cap ParticipantsOf(matches[m2]) = {}

\* C7: every tracked match that is not finished has both its players mapped
\* to it in playerMatches.
C7_LiveMatchPlayersMapped ==
  \A m \in DOMAIN matches :
    matches[m].state # "finished" =>
      \A p \in ParticipantsOf(matches[m]) :
        p \in DOMAIN playerMatches /\ playerMatches[p] = m

\* C8: whenever a participant's score changes it grows by 100 to 250 points;
\* with the 15 s limit a timestamp at the anchor scores 250 and one 15 s or
\* more after it scores 100.
C8_PointsInRange ==
  [][\A m \in Kept :
       /\ \A p \in ParticipantsOf(matches[m]) :
            matches'[m].scores[p] # matches[m].scores[p]
              => (matches'[m].scores[p] - matches[m].scores[p]) \in 100..250
       /\ Points(now, now, RoundTimeLimit) = 250
       /\ Points(now + RoundTimeLimit * 1000, now, RoundTimeLimit) = 100
       /\ Points(now + HourMs, now, RoundTimeLimit) = 100]_vars

\* C9: when a player is removed while in a match that is not finished, the
\* match is 'finished' after that step and the other player's mapping is
\* kept; from then on the scores of the match never change, and
\* getGameResult returns them.
C9_ForfeitFreezesScores ==
  [][\A m \in MatchIds :
       /\ (m \in forfeited' \ forfeited) =>
            /\ IsFinished(matches', m)
            /\ \A p \in ParticipantsOf(matches[m]) :
                 (p \in DOMAIN playerMatches /\ p \in DOMAIN playerMatches')
                   => playerMatches'[p] = playerMatches[p]
            /\ Cardinality(DOMAIN playerMatches \ DOMAIN playerMatches') = 1
       /\ (m \in forfeited /\ m \in Kept) =>
            /\ matches'[m].scores = matches[m].scores
            /\ getGameResult(m)' # Null
            /\ getGameResult(m)'.finalScores = matches[m].scores]_vars

\* C10: a sweep an hour or more after a match finished deletes the match and
\* both its players' mappings; a sweep at the time the match finished (by its
\* last round, or by a forfeit once a round had started) deletes nothing of it.
\* Stated of every reachable state, on what cleanupFinishedMatches makes of it.
C10_Retention ==
  \A m \in DOMAIN matches :
    IsFinished(matches, m) =>
      /\ (now - finishedAt[m] >= HourMs) =>
           /\ m \notin DOMAIN Swept.matches
           /\ ParticipantsOf(matches[m]) \cap DOMAIN Swept.playerMatches = {}
      /\ (finishedAt[m] = now /\ (m \notin forfeited \/ matches[m].currentRound >= 1)) =>
           /\ m \in DOMAIN Swept.matches
           /\ \A p \in ParticipantsOf(matches[m]) :
                p \in DOMAIN playerMatches => p \in DOMAIN Swept.playerMatches

\* C11: when the auto-finish timer of a round fires and neither player has
\* answered, the forced submission returns a RoundResult with an empty answer
\* map and the scores as they were, and the match moves to the next round, or
\* is 'finished' after its last round.
C11_TimeoutResolvesRound ==
  [][\A i \in DOMAIN timers :
       LET mid == timers[i].matchId
       IN ( /\ autoFinish(i)
            /\ InRound(mid)
            /\ Len(resolved[mid]) = timers[i].seen
            /\ DOMAIN matches[mid].playerAnswers \cap ParticipantsOf(matches[mid]) = {} )
          => LET result == Submitted(mid, System, matches[mid].currentRound, 0, now).result
             IN /\ result # Null
                /\ result.playerAnswers = EmptyMap
                /\ result.scores = matches[mid].scores
                /\ resolved'[mid] = Append(resolved[mid], matches[mid].currentRound)
                /\ IF matches[mid].currentRound >= Len(matches[mid].rounds)
                   THEN matches'[mid].state = "finished"
                   ELSE /\ matches'[mid].state = "playing"
                        /\ matches'[mid].currentRound = matches[mid].currentRound + 1]_vars

\* C12: startMatch on a finished match, or on a playing match whose round has
\* not been resolved, leaves the match's state, current round, round-start
\* anchor, scores and pending answers as they were.
C12_StartRefused ==
  [][\A m \in DOMAIN matches :
       (StartRound(m) /\ (IsFinished(matches, m) \/ InRound(m)))
         => /\ matches'[m].state = matches[m].state
            /\ matches'[m].currentRound = matches[m].currentRound
            /\ matches'[m].roundStartTime = matches[m].roundStartTime
            /\ matches'[m].scores = matches[m].scores
            /\ matches'[m].playerAnswers = matches[m].playerAnswers]_vars

\* C13: the pending-answer map of a match is empty right after each round
\* resolution and right after each round start.
C13_PendingEmptyAfterTransition ==
  [][\A m \in Kept :
       ( \/ resolved'[m] # resolved[m]
         \/ \E i \in DOMAIN timers : timers[i].matchId = m /\ startNextRound(i) )
         => matches'[m].playerAnswers = EmptyMap]_vars

\* C14: every match has two different players, whatever is enqueued and
\* removed, the same player several times included.
C14_DistinctPlayers ==
  \A m \in DOMAIN matches : matches[m].player1Id # matches[m].player2Id

\* A player who was matched, removed and enqueued again is in a second match
C14_Requeued ==
  \E m1, m2 \in DOMAIN matches :
    /\ m1 # m2
    /\ ParticipantsOf(matches[m1]) \cap ParticipantsOf(matches[m2]) # {}

\* The waiting list once `player` has been inserted: any earlier entry of the
\* player dropped, the player at the end
Inserted(player) ==
  Append(SelectSeq(waitingPlayers, LAMBDA x : x # player), player)

\* C15: an enqueue of an unmatched player makes a new match exactly when the
\* waiting list holds two entries or more after the insertion; the match
\* has the two longest-waiting players, the longest-waiting as player 1,
\* only those two leave the waiting list, and the match is 'waiting' at round
\* 0 with both scores 0; otherwise no match is made and the player is queued.
C15_FifoPairing ==
  [][\A p \in Players :
       (Enqueue(p) /\ p \notin DOMAIN playerMatches)
         => IF Len(Inserted(p)) >= 2
            THEN /\ DOMAIN matches' = DOMAIN matches \cup {nextId}
                 /\ nextId \notin DOMAIN matches
                 /\ \A m \in DOMAIN matches : matches'[m] = matches[m]
                 /\ matches'[nextId].player1Id = Inserted(p)[1]
                 /\ matches'[nextId].player2Id = Inserted(p)[2]
                 /\ waitingPlayers' = SubSeq(Inserted(p), 3, Len(Inserted(p)))
                 /\ matches'[nextId].state = "waiting"
                 /\ matches'[nextId].currentRound = 0
                 /\ matches'[nextId].scores =
                      [id \in {Inserted(p)[1], Inserted(p)[2]} |-> 0]
                 /\ playerMatches'[Inserted(p)[1]] = nextId
                 /\ playerMatches'[Inserted(p)[2]] = nextId
            ELSE /\ matches' = matches
                 /\ playerMatches' = playerMatches
                 /\ waitingPlayers' = Inserted(p)]_vars

\* A and B were paired in the order they came, and C, who came alone, waits
C15_PairedAndQueued ==
  /\ 1 \in DOMAIN matches
  /\ matches[1].player1Id = "A"
  /\ matches[1].player2Id = "B"
  /\ matches[1].state = "waiting"
  /\ waitingPlayers = <<"C">>

\* C16: a guess for an unknown match, for a match that is not 'playing', or
\* for a round other than the current one returns no RoundResult and changes
\* nothing of any match: scores, pending answers, current round, state and
\* round-start anchor are as they were.
C16_RefusedGuessNoOp ==
  [][\A p \in Players, rn \in RoundNumbers, g \in Guesses :
       ( /\ playerGuess(p, rn, g)
         /\ \/ socketData[p] \notin DOMAIN matches
            \/ matches[socketData[p]].state # "playing"
            \/ rn # matches[socketData[p]].currentRound )
         => /\ Submitted(socketData[p], p, rn, g, now).result = Null
            /\ matches' = matches
            /\ resolved' = resolved]_vars

\* The latest guess was for another round than the current one of a match
\* whose round 1 has been resolved, and was refused
C16_StaleRoundRefused ==
  /\ lastGuess = "other round"
  /\ \E m \in DOMAIN matches : matches[m].state = "playing" /\ resolved[m] # << >>

\* C17: getGameResult returns a result exactly for a match that exists and is
\* 'finished'; its winner is the player with the strictly higher score, "tie"
\* when the two scores are equal, and its final scores are the match's scores.
C17_GameResult ==
  \A m \in MatchIds :
    /\ getGameResult(m) # Null <=> (m \in DOMAIN matches /\ matches[m].state = "finished")
    /\ getGameResult(m) # Null =>
         LET score1 == matches[m].scores[matches[m].player1Id]
             score2 == matches[m].scores[matches[m].player2Id]
         IN /\ getGameResult(m).finalScores = matches[m].scores
            /\ getGameResult(m).matchId = m
            /\ score1 > score2 => getGameResult(m).winner = matches[m].player1Id
            /\ score2 > score1 => getGameResult(m).winner = matches[m].player2Id
            /\ score1 = score2 => getGameResult(m).winner = "tie"

\* A match finished by its last round, which player 2 has won
C17_SecondPlayerWon ==
  \E m \in DOMAIN matches :
    /\ matches[m].state = "finished"
    /\ m \notin forfeited
    /\ matches[m].scores[matches[m].player2Id] > matches[m].scores[matches[m].player1Id]
    /\ getGameResult(m).winner = matches[m].player2Id

\* C18: the current round of a match is between 0 and its number of rounds,
\* and it is 0 only while the match is 'waiting'.
C18_RoundInRange ==
  \A m \in DOMAIN matches :
    /\ 0 <= matches[m].currentRound
    /\ matches[m].currentRound <= Len(matches[m].rounds)
    /\ matches[m].currentRound = 0 => matches[m].state = "waiting"

\* C19: a player whose mapped match is 'finished' and not yet swept is
\* accepted by addPlayerToQueue: after the call the player is on the waiting
\* list or in a new match.
C19_EnqueueAfterFinished ==
  [][\A p \in Players :
       ( /\ Enqueue(p)
         /\ p \in DOMAIN playerMatches
         /\ IsFinished(matches, playerMatches[p]) )
         => \/ p \in Range(waitingPlayers')
            \/ \E m \in DOMAIN matches' \ DOMAIN matches :
                 p \in ParticipantsOf(matches'[m])]_vars

\* C20: cleanupFinishedMatches removes only mappings that point to a match it
\* deletes: a mapping to a match that is still there after the sweep is
\* unchanged.  Stated of every reachable state, on what the sweep makes of it.
C20_SweepKeepsLiveMappings ==
  \A p \in DOMAIN playerMatches :
    playerMatches[p] \in DOMAIN Swept.matches =>
      /\ p \in DOMAIN Swept.playerMatches
      /\ Swept.playerMatches[p] = playerMatches[p]

\* C21: while a playing match is between rounds (its round-start anchor
\* unset), no step changes its scores or returns a RoundResult for it, and a
\* RoundResult is returned only for a round that was started and is running.
C21_NothingBetweenRounds ==
  [][\A m \in Kept :
       /\ (matches[m].state = "playing" /\ matches[m].roundStartTime = Undefined)
            => /\ matches'[m].scores = matches[m].scores
               /\ resolved'[m] = resolved[m]
       /\ resolved'[m] # resolved[m] => InRound(m)]_vars

\* C22: the score map of a match has the two players of the match as its
\* keys, with integer values, and a guess submitted under the 'system'
\* identity leaves the score map as it was.
C22_OnlyParticipantsScore ==
  [][\A m \in Kept :
       /\ DOMAIN matches'[m].scores = ParticipantsOf(matches'[m])
       /\ \A id \in DOMAIN matches'[m].scores : matches'[m].scores[id] \in Nat
       /\ (\E rn \in RoundNumbers, g \in Guesses, d \in {0, TickMs} :
             Submit(m, System, rn, g, now - d))
            => matches'[m].scores = matches[m].scores]_vars

\* C23: the waiting list holds at most one player, no player twice, and no
\* player who is mapped to a match.
C23_WaitingList ==
  /\ Len(waitingPlayers) <= 1
  /\ \A i, j \in DOMAIN waitingPlayers : waitingPlayers[i] = waitingPlayers[j] => i = j
  /\ Range(waitingPlayers) \cap DOMAIN playerMatches = {}

\* A player who left a match waits again while the opponent is still mapped
C23_WaitsAfterLeaving ==
  /\ Len(waitingPlayers) = 1
  /\ \E m \in DOMAIN matches :
       /\ waitingPlayers[1] \in ParticipantsOf(matches[m])
       /\ \E p \in ParticipantsOf(matches[m]) :
            p \in DOMAIN playerMatches /\ playerMatches[p] = m

====
